---- MODULE Spec2Model ----
(***************************************************************************)
(* Continuation-token pagination of terenzio/TokenPagination:              *)
(* repository/record_repository.go (the token codec, CreateTable, Insert,  *)
(* GetPaginated), handler/record_handler.go (GetRecordsPaginated,          *)
(* CreateRecord, CreateRecordFromQuery) and the seeding of main.go.        *)
(*                                                                         *)
(* Strings are sequences of byte values (ASCII codes), so that the         *)
(* "%s|%s|%d" formatting, the split on '|', strconv.ParseInt and the       *)
(* URL-safe base64 transform are computed as the code computes them.       *)
(* Times are counted in ticks, SubPerSec ticks to the second; a time's     *)
(* Unix() value is its tick count divided by SubPerSec, rounded down.      *)
(*                                                                         *)
(* The store keeps created_at as Insert hands it over, sub-second part     *)
(* included: Record.CreatedAt is a time.Time, and the repository's tests   *)
(* feed GetPaginated rows stamped time.Now().  A table whose column keeps  *)
(* whole seconds only (the plain timestamp column of CreateTable) behaves  *)
(* as the runs in which every Insert falls on a whole second.              *)
(***************************************************************************)
EXTENDS Integers, Sequences, FiniteSets, TLC

VARIABLES store, clock, trav, last, codec, memo, boot

vars == <<store, clock, trav, last, codec, memo, boot>>

(***************************************************************************)
(* Bounds of the model.                                                    *)
(***************************************************************************)
\* ticks per second: 2 gives every second one sub-second instant
SubPerSec == 2
\* the clock runs over the ticks 0..MaxClock
MaxClock == 3
\* the store holds at most MaxRows rows
MaxRows == 3
\* the page sizes a traversal asks for are 1..MaxPageSize
MaxPageSize == 2
\* the raw strings the codec is tried on have at most MaxRaw bytes
MaxRaw == 4

(***************************************************************************)
(* Bytes and strings.                                                      *)
(***************************************************************************)
Pipe == 124
Minus == 45
Plus == 43
Zero == 48
Nine == 57
PadChar == 61
LF == 10
CR == 13

Min(a, b) == IF a < b THEN a ELSE b

\* Go's string comparison (and the store's binary collation): bytewise
\* lexicographic order
StrLess(a, b) ==
    \E k \in 1..(Min(Len(a), Len(b)) + 1) :
        /\ \A j \in 1..(k - 1) : a[j] = b[j]
        /\ \/ k > Len(a) /\ k <= Len(b)
           \/ k <= Len(a) /\ k <= Len(b) /\ a[k] < b[k]

\* fmt's %d of a non-negative integer
RECURSIVE FormatNat(_)
FormatNat(n) ==
    IF n < 10 THEN <<Zero + n>>
    ELSE FormatNat(n \div 10) \o <<Zero + (n % 10)>>

\* fmt's %d
FormatInt(n) == IF n < 0 THEN <<Minus>> \o FormatNat(0 - n) ELSE FormatNat(n)

\* the decimal digits of the largest int64, 9223372036854775807
MaxInt64Digits ==
    <<57, 50, 50, 51, 51, 55, 50, 48, 51, 54, 56, 53, 52, 55, 55, 53, 56, 48, 55>>

\* the decimal digits of the magnitude of the smallest int64
MinInt64Digits ==
    <<57, 50, 50, 51, 51, 55, 50, 48, 51, 54, 56, 53, 52, 55, 55, 53, 56, 48, 56>>

RECURSIVE StripZeros(_)
StripZeros(d) ==
    IF Len(d) > 1 /\ d[1] = Zero THEN StripZeros(Tail(d)) ELSE d

RECURSIVE DigitsValue(_)
DigitsValue(d) ==
    IF Len(d) = 0 THEN 0
    ELSE DigitsValue(SubSeq(d, 1, Len(d) - 1)) * 10 + (d[Len(d)] - Zero)

\* the magnitude d (digits) fits an int64 of the given sign
InInt64Range(d, neg) ==
    LET s == StripZeros(d)
        lim == IF neg THEN MinInt64Digits ELSE MaxInt64Digits
    IN  \/ Len(s) < Len(lim)
        \/ Len(s) = Len(lim) /\ (s = lim \/ StrLess(s, lim))

\* strconv.ParseInt(s, 10, 64): an optional sign, then one or more decimal
\* digits, the value within int64
ParseInt(s) ==
    LET signed == Len(s) > 0 /\ s[1] \in {Plus, Minus}
        neg == signed /\ s[1] = Minus
        d == IF signed THEN Tail(s) ELSE s
        good == /\ Len(d) > 0
                /\ \A i \in 1..Len(d) : d[i] \in Zero..Nine
                /\ InInt64Range(d, neg)
    IN  [ok |-> good,
         val |-> IF good
                 THEN (IF neg THEN 0 - DigitsValue(d) ELSE DigitsValue(d))
                 ELSE 0]

\* strings.Split(s, "|")
RECURSIVE Split(_)
Split(s) ==
    IF \A i \in 1..Len(s) : s[i] # Pipe THEN <<s>>
    ELSE LET k == CHOOSE i \in 1..Len(s) :
                      s[i] = Pipe /\ \A j \in 1..(i - 1) : s[j] # Pipe
         IN  <<SubSeq(s, 1, k - 1)>> \o Split(SubSeq(s, k + 1, Len(s)))

(***************************************************************************)
(* encoding/base64, URLEncoding (padded, not strict).                      *)
(***************************************************************************)
\* the URL-safe alphabet: A-Z a-z 0-9 - _
EncodeChar(v) ==
    IF v < 26 THEN 65 + v
    ELSE IF v < 52 THEN 71 + v
    ELSE IF v < 62 THEN v - 4
    ELSE IF v = 62 THEN 45 ELSE 95

InAlphabet(c) ==
    c \in 65..90 \/ c \in 97..122 \/ c \in 48..57 \/ c = 45 \/ c = 95

DecodeChar(c) ==
    IF c \in 65..90 THEN c - 65
    ELSE IF c \in 97..122 THEN c - 71
    ELSE IF c \in 48..57 THEN c + 4
    ELSE IF c = 45 THEN 62 ELSE 63

\* base64.URLEncoding.EncodeToString
RECURSIVE Base64Encode(_)
Base64Encode(b) ==
    IF Len(b) = 0 THEN <<>>
    ELSE IF Len(b) = 1 THEN
        LET n == b[1] * 65536
        IN  <<EncodeChar(n \div 262144), EncodeChar((n \div 4096) % 64),
              PadChar, PadChar>>
    ELSE IF Len(b) = 2 THEN
        LET n == b[1] * 65536 + b[2] * 256
        IN  <<EncodeChar(n \div 262144), EncodeChar((n \div 4096) % 64),
              EncodeChar((n \div 64) % 64), PadChar>>
    ELSE
        LET n == b[1] * 65536 + b[2] * 256 + b[3]
        IN  <<EncodeChar(n \div 262144), EncodeChar((n \div 4096) % 64),
              EncodeChar((n \div 64) % 64), EncodeChar(n % 64)>>
            \o Base64Encode(SubSeq(b, 4, Len(b)))

\* the decoder skips '\r' and '\n' wherever they stand
StripNewlines(t) == SelectSeq(t, LAMBDA c : c # LF /\ c # CR)

\* what is left is whole quanta of 4 alphabet characters, the last of which
\* may end in one or two padding characters
Base64WellFormed(s) ==
    /\ Len(s) % 4 = 0
    /\ \A i \in 1..Len(s) :
          \/ InAlphabet(s[i])
          \/ i = Len(s) /\ s[i] = PadChar
          \/ i = Len(s) - 1 /\ s[i] = PadChar /\ s[Len(s)] = PadChar

RECURSIVE Base64Quanta(_)
Base64Quanta(s) ==
    IF Len(s) = 0 THEN <<>>
    ELSE LET v(i) == IF s[i] = PadChar THEN 0 ELSE DecodeChar(s[i])
             n == v(1) * 262144 + v(2) * 4096 + v(3) * 64 + v(4)
             out == <<n \div 65536, (n \div 256) % 256, n % 256>>
             keep == IF s[3] = PadChar THEN 1 ELSE IF s[4] = PadChar THEN 2 ELSE 3
         IN  SubSeq(out, 1, keep) \o Base64Quanta(SubSeq(s, 5, Len(s)))

\* base64.URLEncoding.DecodeString
Base64Decode(t) ==
    LET s == StripNewlines(t)
    IN  IF Base64WellFormed(s)
        THEN [ok |-> TRUE, bytes |-> Base64Quanta(s)]
        ELSE [ok |-> FALSE, bytes |-> <<>>]

(***************************************************************************)
(* The cursor codec.                                                       *)
(***************************************************************************)
\* time.Time.Unix(): whole seconds since the epoch, rounded down
Unix(t) == t \div SubPerSec

\* time.Unix(sec, 0)
TimeOfUnix(sec) == sec * SubPerSec

encodeContinuationToken(lastResourceType, lastResourceID, lastCreatedAt) ==
    Base64Encode(lastResourceType \o <<Pipe>> \o lastResourceID \o <<Pipe>>
                 \o FormatInt(Unix(lastCreatedAt)))

NoPosition == [resource_type |-> <<>>, resource_id |-> <<>>, created_at |-> 0]

\* a slip: fewer than three fields are refused, more are let through
WrongFieldCountTooFew(parts) == Len(parts) < 3

\* len(parts) != 3
WrongFieldCount(parts) == Len(parts) # 3

decodeContinuationToken(token) ==
    LET decoded == Base64Decode(token)
        parts == Split(decoded.bytes)
        timestamp == ParseInt(parts[3])
    IN  IF ~decoded.ok THEN [err |-> "encoding", pos |-> NoPosition]
        ELSE IF WrongFieldCount(parts) THEN [err |-> "format", pos |-> NoPosition]
        ELSE IF ~timestamp.ok THEN [err |-> "timestamp", pos |-> NoPosition]
        ELSE [err |-> "none",
              pos |-> [resource_type |-> parts[1], resource_id |-> parts[2],
                       created_at |-> TimeOfUnix(timestamp.val)]]

(***************************************************************************)
(* The store: table resource_context, PRIMARY KEY (resource_type,          *)
(* resource_id).  A row is [resource_id, resource_type, created_at,        *)
(* updated_at]; the context column is payload that no operation reads.     *)
(***************************************************************************)
\* the keys the callers insert: (type "a", id "a"), ("a", "b"), ("b", "a")
\* and ("b", "|")
ResourceKeys ==
    {[resource_type |-> <<97>>, resource_id |-> <<97>>],
     [resource_type |-> <<97>>, resource_id |-> <<98>>],
     [resource_type |-> <<98>>, resource_id |-> <<97>>],
     [resource_type |-> <<98>>, resource_id |-> <<Pipe>>]}

\* r1 comes before r2 under
\* ORDER BY created_at DESC, resource_type DESC, resource_id DESC
OrderedBefore(r1, r2) ==
    \/ r1.created_at > r2.created_at
    \/ r1.created_at = r2.created_at
         /\ StrLess(r2.resource_type, r1.resource_type)
    \/ r1.created_at = r2.created_at /\ r1.resource_type = r2.resource_type
         /\ StrLess(r2.resource_id, r1.resource_id)

RECURSIVE OrderBy(_)
OrderBy(rows) ==
    IF rows = {} THEN <<>>
    ELSE LET first == CHOOSE r \in rows :
                          \A o \in rows \ {r} : OrderedBefore(r, o)
         IN  <<first>> \o OrderBy(rows \ {first})

\* LIMIT n
Limit(rows, n) == SubSeq(rows, 1, Min(n, Len(rows)))

\* WHERE (created_at < ? OR (created_at = ? AND resource_type < ?)
\*        OR (created_at = ? AND resource_type = ? AND resource_id < ?))
\* created_at < ?
SeekCreatedAt(r, lastCreatedAt) == r.created_at < lastCreatedAt

\* a slip: the second range without its created_at = ?
SeekResourceTypeLoose(r, lastResourceType, lastCreatedAt) ==
    StrLess(r.resource_type, lastResourceType)

\* created_at = ? AND resource_type < ?
SeekResourceType(r, lastResourceType, lastCreatedAt) ==
    r.created_at = lastCreatedAt /\ StrLess(r.resource_type, lastResourceType)

\* a slip: the third range with <= for <
SeekResourceIDInclusive(r, lastResourceType, lastResourceID, lastCreatedAt) ==
    /\ r.created_at = lastCreatedAt
    /\ r.resource_type = lastResourceType
    /\ ~StrLess(lastResourceID, r.resource_id)

\* created_at = ? AND resource_type = ? AND resource_id < ?
SeekResourceID(r, lastResourceType, lastResourceID, lastCreatedAt) ==
    /\ r.created_at = lastCreatedAt
    /\ r.resource_type = lastResourceType
    /\ StrLess(r.resource_id, lastResourceID)

SeekPredicate(r, lastResourceType, lastResourceID, lastCreatedAt) ==
    \/ SeekCreatedAt(r, lastCreatedAt)
    \/ SeekResourceType(r, lastResourceType, lastCreatedAt)
    \/ SeekResourceID(r, lastResourceType, lastResourceID, lastCreatedAt)

DefaultPageSize == 5

\* the largest and the smallest value of Go's int where it is 32 bits wide
MaxInt == 2147483647
MinInt == (0 - 2147483647) - 1

\* pageSize + 1 in int arithmetic, which wraps around
PlusOne(n) == IF n = MaxInt THEN MinInt ELSE n + 1

\* a slip: another default
EffectivePageSizeSix(pageSize) ==
    IF pageSize <= 0 THEN DefaultPageSize + 1 ELSE pageSize

\* a slip: the default depends on the time of the call
EffectivePageSizeDrifting(pageSize) ==
    IF pageSize <= 0 THEN 1 + clock ELSE pageSize

\* if pageSize <= 0 { pageSize = DefaultPageSize }
EffectivePageSize(pageSize) ==
    IF pageSize <= 0 THEN DefaultPageSize ELSE pageSize

\* the value GetPaginated returns with a non-nil error
Failed(kind, didQuery) ==
    [err |-> kind, nil |-> TRUE, records |-> <<>>, hasNext |-> FALSE,
     next |-> <<>>, queried |-> didQuery, limit |-> 0]

\* a slip: the query is issued before the token is looked at
DecodeFailureAfterQuery(kind) == Failed(kind, TRUE)

\* a token that does not decode: the error is returned before any query
DecodeFailure(kind) == Failed(kind, FALSE)

\* a slip: a full page is taken for a page with more behind it
HasMoreOffByOne(records, pageSize) == Len(records) >= pageSize

\* len(records) > pageSize: the look-ahead row came back
HasMore(records, pageSize) == Len(records) > pageSize

\* a slip: the look-ahead row is left on the page
RecordsUntrimmed(records, pageSize) == records

\* result.Records = records[:pageSize]
RecordsPrefix(records, pageSize) == SubSeq(records, 1, pageSize)

\* a slip: the cursor is taken from the look-ahead row
lastRecordLookAhead(records, pageSize) == records[pageSize + 1]

\* lastRecord := records[pageSize-1], the last row of the page (sequences
\* count from 1)
lastRecord(records, pageSize) == records[pageSize]

\* GetPaginated(continuationToken, pageSize) against the rows db; dbFails is
\* the store failing the query.  pageSize + 1 is negative when pageSize is
\* the largest int: a store either refuses a negative LIMIT
\* (negativeLimitRefused) or reads it as an unsigned number, larger than any
\* table.  limit is the LIMIT argument of the query that was issued.
GetPaginated(db, continuationToken, pageSize, dbFails, negativeLimitRefused) ==
    LET ps == EffectivePageSize(pageSize)
        limit == PlusOne(ps)
        dec == IF continuationToken = <<>>
               THEN [err |-> "none", pos |-> NoPosition]
               ELSE decodeContinuationToken(continuationToken)
        matching ==
            IF continuationToken = <<>> THEN db
            ELSE {r \in db : SeekPredicate(r, dec.pos.resource_type,
                                           dec.pos.resource_id, dec.pos.created_at)}
        records == IF limit < 0 THEN OrderBy(matching)
                   ELSE Limit(OrderBy(matching), limit)
    IN  IF dec.err # "none" THEN DecodeFailure(dec.err)
        ELSE IF dbFails \/ (limit < 0 /\ negativeLimitRefused)
        THEN [Failed("query", TRUE) EXCEPT !.limit = limit]
        ELSE IF HasMore(records, ps)
        THEN [err |-> "none", nil |-> FALSE,
              records |-> RecordsPrefix(records, ps), hasNext |-> TRUE,
              next |-> encodeContinuationToken(
                           lastRecord(records, ps).resource_type,
                           lastRecord(records, ps).resource_id,
                           lastRecord(records, ps).created_at),
              queried |-> TRUE, limit |-> limit]
        ELSE [err |-> "none", nil |-> FALSE, records |-> records,
              hasNext |-> FALSE, next |-> <<>>, queried |-> TRUE,
              limit |-> limit]

(***************************************************************************)
(* State.  store is the table; clock is time.Now(); last is the request   *)
(* being answered and its outcome, until the caller has taken it; trav is  *)
(* the bookkeeping of a client that follows the next tokens from the empty *)
(* token on; codec is the input and output of a direct call of the codec;  *)
(* memo is a caller's note of one request and its answer, kept to compare  *)
(* a later answer with; boot is where main stands and what its startup    *)
(* met.                                                                    *)
(* Every operation is one statement against the store, so the operations   *)
(* of concurrent requests happen one after the other, in any order.        *)
(***************************************************************************)
\* the query parameters of an HTTP request
NoQuery ==
    [continuation_token |-> <<>>, page_size |-> <<>>, json |-> TRUE,
     resource_id |-> <<>>, resource_type |-> <<>>]

\* before: the rows of the table when Insert was called
NoCall ==
    [op |-> "none", query |-> NoQuery, token |-> <<>>, pageSize |-> 0,
     status |-> 0, res |-> Failed("none", FALSE), before |-> {}]

\* sizes: the page sizes the requests of the traversal have asked for;
\* requests: how many requests the traversal has made
Idle ==
    [phase |-> "idle", pageSize |-> 0, token |-> <<>>, seen |-> <<>>,
     start |-> {}, added |-> {}, sizes |-> {}, requests |-> 0]

NoCodec == [phase |-> "idle", origin |-> "none", tok |-> <<>>,
            pos |-> NoPosition, out |-> [err |-> "none", pos |-> NoPosition]]

NoMemo ==
    [phase |-> "none", token |-> <<>>, pageSize |-> 0, db |-> {},
     res |-> Failed("none", FALSE), between |-> FALSE, dbAgain |-> {},
     again |-> Failed("none", FALSE)]

\* main has started the server: pc is main's position, before the rows of
\* the table when main started, found the number of records
\* populateSampleData got from GetAll, skipped whether it took its "already
\* contains records" branch
NoBoot == [pc |-> "serving", before |-> {}, found |-> 0, skipped |-> FALSE]

Init ==
    /\ store = {}
    /\ clock = 0
    /\ trav = Idle
    /\ last = NoCall
    /\ codec = NoCodec
    /\ memo = NoMemo
    /\ boot = NoBoot

\* the caller takes the outcome of the latest operation
Deliver ==
    /\ last.op # "none"
    /\ last' = NoCall
    /\ UNCHANGED <<store, clock, trav, codec, memo, boot>>

\* time passes
Tick ==
    /\ last.op = "none"
    /\ clock < MaxClock
    /\ clock' = clock + 1
    /\ UNCHANGED <<store, trav, last, codec, memo, boot>>

\* the cursor position the client's token stands for
CursorOf(token) == decodeContinuationToken(token).pos

\* the row tuple, compared as the ORDER BY compares rows
AsRow(pos) ==
    [resource_id |-> pos.resource_id, resource_type |-> pos.resource_type,
     created_at |-> pos.created_at, updated_at |-> pos.created_at]

\* a slip: a table without its primary key
InsertOKAnyKey(resourceID, resourceType, dbFails) == ~dbFails

\* the INSERT statement succeeds: the store is up and the primary key
\* (resource_type, resource_id) is not there yet
InsertOK(resourceID, resourceType, dbFails) ==
    /\ ~dbFails
    /\ ~\E r \in store : r.resource_type = resourceType
                          /\ r.resource_id = resourceID

\* what the INSERT statement does to the table (and to the bookkeeping of a
\* client in the middle of a traversal); created_at and updated_at are both
\* time.Now()
InsertExec(resourceID, resourceType, dbFails) ==
    LET now == clock
        row == [resource_id |-> resourceID, resource_type |-> resourceType,
                created_at |-> now, updated_at |-> now]
        ok == InsertOK(resourceID, resourceType, dbFails)
    IN  /\ store' = IF ok THEN store \cup {row} ELSE store
        /\ trav' = IF trav.phase = "running"
                   THEN IF ok
                        THEN [trav EXCEPT !.added = @ \cup
                                {[row |-> row,
                                  before |-> OrderedBefore(row, AsRow(CursorOf(trav.token))),
                                  at |-> Len(trav.seen)]}]
                        ELSE trav
                   ELSE Idle
        /\ UNCHANGED <<clock, codec, memo, boot>>

\* Insert(resourceID, resourceType, context); the primary key rejects a
\* second row of the same (resource_type, resource_id)
Insert(resourceID, resourceType, dbFails) ==
    /\ last.op = "none"
    /\ InsertExec(resourceID, resourceType, dbFails)
    /\ last' = [NoCall EXCEPT
                  !.op = "Insert",
                  !.query = [NoQuery EXCEPT !.resource_id = resourceID,
                                            !.resource_type = resourceType],
                  !.before = store,
                  !.res = Failed(IF InsertOK(resourceID, resourceType, dbFails)
                                 THEN "none" ELSE "exec", FALSE)]

InsertAny ==
    /\ Cardinality(store) < MaxRows
    /\ \E k \in ResourceKeys, f \in BOOLEAN :
          Insert(k.resource_id, k.resource_type, f)

\* CreateTable(): DROP TABLE IF EXISTS, then CREATE TABLE; every row is gone.
\* dbFails is the store failing the DROP, which leaves the table as it is.
\* (main ends the program when CreateTable returns an error, so no request
\* follows a failed CREATE.)
CreateTable ==
    /\ last.op = "none"
    /\ \E dbFails \in BOOLEAN :
        /\ store' = IF dbFails THEN store ELSE {}
        /\ last' = [NoCall EXCEPT !.op = "CreateTable",
                                  !.res = Failed(IF dbFails THEN "exec" ELSE "none",
                                                 FALSE)]
    /\ UNCHANGED <<clock, trav, codec, memo, boot>>

\* the client's bookkeeping after a page request
Follow(t, res) ==
    IF res.err # "none"
    THEN [t EXCEPT !.phase = "failed", !.requests = @ + 1]
    ELSE [t EXCEPT !.phase = IF res.hasNext THEN "running" ELSE "done",
                   !.token = res.next,
                   !.seen = @ \o res.records,
                   !.requests = @ + 1]

\* the first request of a traversal: GetPaginated("", p)
StartTraversal ==
    /\ last.op = "none"
    /\ trav.phase # "running"
    /\ \E p \in 1..MaxPageSize, f \in BOOLEAN, n \in BOOLEAN :
        LET res == GetPaginated(store, <<>>, p, f, n)
        IN  /\ last' = [NoCall EXCEPT !.op = "GetPaginated", !.pageSize = p,
                                      !.res = res]
            /\ trav' = Follow([Idle EXCEPT !.pageSize = p, !.start = store,
                                           !.sizes = {p}], res)
            /\ UNCHANGED <<store, clock, codec, memo, boot>>

\* the next request of the traversal: GetPaginated(token, p) with the token
\* the previous page carried
NextPage ==
    /\ last.op = "none"
    /\ trav.phase = "running"
    /\ \E f \in BOOLEAN, n \in BOOLEAN :
        LET res == GetPaginated(store, trav.token, trav.pageSize, f, n)
        IN  /\ last' = [NoCall EXCEPT !.op = "GetPaginated",
                                      !.token = trav.token,
                                      !.pageSize = trav.pageSize, !.res = res]
            /\ trav' = Follow(trav, res)
            /\ UNCHANGED <<store, clock, codec, memo, boot>>

(***************************************************************************)
(* Requests with any token: what a client may send, not only what it was   *)
(* handed.                                                                 *)
(***************************************************************************)
\* the strings "a|a|0", "a|b|1" and so on
PositionStrings ==
    {k.resource_type \o <<Pipe>> \o k.resource_id \o <<Pipe>> \o FormatInt(sec) :
        k \in ResourceKeys, sec \in 0..Unix(MaxClock)}

\* "a|a" (two fields), "a|a|x" and "a|a|" (no timestamp), "" (one field)
MalformedStrings ==
    {<<97, Pipe, 97>>, <<97, Pipe, 97, Pipe, 120>>, <<97, Pipe, 97, Pipe>>, <<>>}

\* not base64 at all: "!", "YQ" (padding missing), "YQ=a", "+/+/" (the
\* standard alphabet, not the URL-safe one)
CorruptTokens ==
    {<<33>>, <<89, 81>>, <<89, 81, PadChar, 97>>, <<43, 47, 43, 47>>}

\* the empty string is the request for the first page, never a token to decode
CallTokens ==
    {<<>>} \cup {Base64Encode(x) : x \in PositionStrings \cup (MalformedStrings \ {<<>>})}
           \cup CorruptTokens

\* the page sizes a caller of the repository passes: negative, zero, small,
\* and the largest int
CallPageSizes == {-1, 0, MaxInt} \cup 1..MaxPageSize

\* a single call of GetPaginated, outside any traversal
GetPaginatedCall ==
    /\ last.op = "none"
    /\ trav.phase # "running"
    /\ \E tok \in CallTokens, p \in CallPageSizes, f \in BOOLEAN, n \in BOOLEAN :
        /\ last' = [NoCall EXCEPT !.op = "GetPaginated", !.token = tok,
                                  !.pageSize = p,
                                  !.res = GetPaginated(store, tok, p, f, n)]
        /\ trav' = Idle
        /\ UNCHANGED <<store, clock, codec, memo, boot>>

(***************************************************************************)
(* handler/record_handler.go                                               *)
(***************************************************************************)
StatusOK == 200
StatusCreated == 201
StatusBadRequest == 400
StatusInternalServerError == 500

\* the handler's own cap and default
HandlerDefaultPageSize == 5
HandlerMaxPageSize == 100

\* the page size GetRecordsPaginated passes on, from the page_size parameter
\* (strconv.Atoi accepts what ParseInt accepts, within the range of int; the
\* values of PageSizeParams are in range, or out of it, for either width)
PageSizeOfQuery(pageSizeStr) ==
    LET ps == ParseInt(pageSizeStr)
    IN  IF pageSizeStr # <<>> /\ ps.ok /\ ps.val > 0
        THEN (IF ps.val > HandlerMaxPageSize THEN HandlerMaxPageSize ELSE ps.val)
        ELSE HandlerDefaultPageSize

\* the status GetRecordsPaginated answers with
StatusOfResult(res) == IF res.err # "none" THEN StatusBadRequest ELSE StatusOK

\* the values of the page_size parameter: absent, "0", "1", "2", "100",
\* "101", "-1", "+2", "x", and a number one larger than the largest int64
PageSizeParams ==
    {<<>>, <<48>>, <<49>>, <<50>>, <<49, 48, 48>>, <<49, 48, 49>>, <<Minus, 49>>,
     <<Plus, 50>>, <<120>>, MinInt64Digits}

\* the values of the continuation_token parameter: absent, "!", and the
\* tokens of "a|a" and "b||1"
HTTPTokens ==
    {<<>>, <<33>>, Base64Encode(<<97, Pipe, 97>>),
     Base64Encode(<<98, Pipe, Pipe, 49>>)}

\* GET /api/v1/records/paginated
GetRecordsPaginated ==
    /\ last.op = "none"
    /\ trav.phase # "running"
    /\ \E continuationToken \in HTTPTokens, pageSizeStr \in PageSizeParams,
          f \in BOOLEAN, n \in BOOLEAN :
        LET pageSize == PageSizeOfQuery(pageSizeStr)
            result == GetPaginated(store, continuationToken, pageSize, f, n)
        IN  /\ last' = [op |-> "GetRecordsPaginated",
                        query |-> [NoQuery EXCEPT
                                     !.continuation_token = continuationToken,
                                     !.page_size = pageSizeStr],
                        token |-> continuationToken,
                        pageSize |-> pageSize, status |-> StatusOfResult(result),
                        res |-> result]
            /\ trav' = Idle
            /\ UNCHANGED <<store, clock, codec, memo, boot>>

(***************************************************************************)
(* A store loaded with more rows than the default page size, and requests  *)
(* with the page sizes that matter there.                                  *)
(***************************************************************************)
\* the load inserts MaxSeedRows rows, over the ticks 0..SeedClock
MaxSeedRows == 7
SeedClock == 2

\* the key of the i-th row of the load: ("b", "a"), ("a", "b"), ("b", "b"),
\* ("a", "c"), ("b", "c"), ("a", "d"), ("b", "d") and so on
SeedKey(i) ==
    [resource_type |-> <<97 + (i % 2)>>, resource_id |-> <<97 + (i \div 2)>>]

\* time passes during the load
SeedTick ==
    /\ clock < SeedClock
    /\ Tick

\* Insert of the next row of the load
InsertSeed ==
    /\ Cardinality(store) < MaxSeedRows
    /\ \E f \in BOOLEAN :
          Insert(SeedKey(Cardinality(store) + 1).resource_id,
                 SeedKey(Cardinality(store) + 1).resource_type, f)

\* the tokens of the position of the last key of the load, in each second
\* of the load
SeedTokens ==
    {Base64Encode(SeedKey(MaxSeedRows).resource_type \o <<Pipe>>
                  \o SeedKey(MaxSeedRows).resource_id \o <<Pipe>>
                  \o FormatInt(sec)) : sec \in 0..Unix(SeedClock)}

\* the smallest int, -1, 0, the default, one more than the default, the
\* largest int
SeedPageSizes == {MinInt, -1, 0, DefaultPageSize, DefaultPageSize + 1, MaxInt}

\* GetPaginated(tok, p) during and after the load
SeedRequest ==
    /\ last.op = "none"
    /\ \E tok \in {<<>>} \cup SeedTokens, p \in SeedPageSizes,
          f \in BOOLEAN, n \in BOOLEAN :
        /\ last' = [NoCall EXCEPT !.op = "GetPaginated", !.token = tok,
                                  !.pageSize = p,
                                  !.res = GetPaginated(store, tok, p, f, n)]
        /\ UNCHANGED <<store, clock, trav, codec, memo, boot>>

\* requests against a store being loaded
NextSeed ==
    \/ Deliver
    \/ SeedTick
    \/ InsertSeed
    \/ SeedRequest

SpecSeed == Init /\ [][NextSeed]_vars

(***************************************************************************)
(* The two endpoints that create a record.                                 *)
(***************************************************************************)
\* the requests: resource_id and resource_type of a key, either of them
\* lacking (or empty), both lacking; json is the body being well-formed JSON
CreateRequests ==
    UNION {{[NoQuery EXCEPT !.json = j, !.resource_id = id, !.resource_type = type] :
               j \in BOOLEAN, id \in {<<>>, k.resource_id},
               type \in {<<>>, k.resource_type}} : k \in ResourceKeys}

\* c.ShouldBindJSON(&req): the body parses and both fields tagged
\* binding:"required" are there and not empty
ShouldBindJSON(q) ==
    q.json /\ q.resource_id # <<>> /\ q.resource_type # <<>>

\* a slip: resource_type is looked at first
MissingParameterTypeFirst(q) ==
    IF q.resource_type = <<>> THEN "resource_type"
    ELSE IF q.resource_id = <<>> THEN "resource_id"
    ELSE "none"

\* the parameter CreateRecordFromQuery reports as required: resource_id is
\* looked at first
MissingParameter(q) ==
    IF q.resource_id = <<>> THEN "resource_id"
    ELSE IF q.resource_type = <<>> THEN "resource_type"
    ELSE "none"

\* the answer of a creation endpoint; res.queried says whether Insert was
\* called
Created(name, q, refused, dbFails) ==
    LET ok == InsertOK(q.resource_id, q.resource_type, dbFails)
    IN  [NoCall EXCEPT
            !.op = name,
            !.query = q,
            !.status = IF refused # "none" THEN StatusBadRequest
                       ELSE IF ok THEN StatusCreated
                       ELSE StatusInternalServerError,
            !.res = IF refused # "none" THEN Failed(refused, FALSE)
                    ELSE Failed(IF ok THEN "none" ELSE "exec", TRUE)]

\* POST /api/v1/records
CreateRecord ==
    /\ last.op = "none"
    /\ trav.phase # "running"
    /\ Cardinality(store) < MaxRows
    /\ \E q \in CreateRequests, dbFails \in BOOLEAN :
        LET refused == IF ShouldBindJSON(q) THEN "none" ELSE "binding"
        IN  /\ IF refused = "none"
               THEN InsertExec(q.resource_id, q.resource_type, dbFails)
               ELSE UNCHANGED <<store, clock, trav, codec, memo, boot>>
            /\ last' = Created("CreateRecord", q, refused, dbFails)

\* POST /api/v1/records/create
CreateRecordFromQuery ==
    /\ last.op = "none"
    /\ trav.phase # "running"
    /\ Cardinality(store) < MaxRows
    /\ \E q \in {r \in CreateRequests : r.json}, dbFails \in BOOLEAN :
        LET refused == MissingParameter(q)
        IN  /\ IF refused = "none"
               THEN InsertExec(q.resource_id, q.resource_type, dbFails)
               ELSE UNCHANGED <<store, clock, trav, codec, memo, boot>>
            /\ last' = Created("CreateRecordFromQuery", q, refused, dbFails)

\* a client following the next tokens, among inserts
Next ==
    \/ Deliver
    \/ Tick
    \/ InsertAny
    \/ StartTraversal
    \/ NextPage

Spec == Init /\ [][Next]_vars

(***************************************************************************)
(* A client that asks for another page size with every request.            *)
(***************************************************************************)
\* the next request of the traversal with a page size of its own:
\* GetPaginated(token, p) with the token the previous page carried
NextPageResized ==
    /\ last.op = "none"
    /\ trav.phase = "running"
    /\ \E p \in 1..MaxPageSize, f \in BOOLEAN, n \in BOOLEAN :
        LET res == GetPaginated(store, trav.token, p, f, n)
        IN  /\ last' = [NoCall EXCEPT !.op = "GetPaginated",
                                      !.token = trav.token,
                                      !.pageSize = p, !.res = res]
            /\ trav' = Follow([trav EXCEPT !.pageSize = p,
                                           !.sizes = @ \cup {p}], res)
            /\ UNCHANGED <<store, clock, codec, memo, boot>>

NextResized ==
    \/ Deliver
    \/ Tick
    \/ InsertAny
    \/ StartTraversal
    \/ NextPageResized

SpecResized == Init /\ [][NextResized]_vars

(***************************************************************************)
(* A token handed back after the table was dropped and filled again.       *)
(***************************************************************************)
\* the table holds at most DropRows rows here
DropRows == 2

\* a caller asks for the first page and notes the answer, which carries a
\* next token, and the rows of the store at that time
NotePage ==
    /\ last.op = "none"
    /\ memo.phase = "none"
    /\ \E p \in 1..MaxPageSize, f \in BOOLEAN, n \in BOOLEAN :
        LET res == GetPaginated(store, <<>>, p, f, n)
        IN  /\ res.hasNext
            /\ last' = [NoCall EXCEPT !.op = "GetPaginated", !.pageSize = p,
                                      !.res = res]
            /\ memo' = [NoMemo EXCEPT !.phase = "noted", !.pageSize = p,
                                      !.db = store, !.res = res]
            /\ UNCHANGED <<store, clock, trav, codec, boot>>

\* the caller hands the next token back: GetPaginated(token, p)
TokenBack ==
    /\ last.op = "none"
    /\ memo.phase = "noted"
    /\ \E f \in BOOLEAN, n \in BOOLEAN :
        LET res == GetPaginated(store, memo.res.next, memo.pageSize, f, n)
        IN  /\ last' = [NoCall EXCEPT !.op = "GetPaginated",
                                      !.token = memo.res.next,
                                      !.pageSize = memo.pageSize, !.res = res]
            /\ memo' = [memo EXCEPT !.phase = "again", !.dbAgain = store,
                                    !.again = res]
            /\ UNCHANGED <<store, clock, trav, codec, boot>>

\* until the token is back: time passes, rows are inserted, the table is
\* dropped and created again
DropTick == memo.phase # "again" /\ Tick

DropInsert ==
    /\ memo.phase # "again"
    /\ Cardinality(store) < DropRows
    /\ InsertAny

DropTable == memo.phase # "again" /\ CreateTable

NextDrop ==
    \/ Deliver
    \/ DropTick
    \/ DropInsert
    \/ DropTable
    \/ NotePage
    \/ TokenBack

SpecDrop == Init /\ [][NextDrop]_vars

(***************************************************************************)
(* A request sent twice, with other callers' requests in between.          *)
(***************************************************************************)
\* the requests a caller notes: the empty token, the token of "b|a|0", and
\* "!"; the default page size and page size 1
NotedTokens == {<<>>, Base64Encode(<<98, Pipe, 97, Pipe, 48>>), <<33>>}
NotedPageSizes == {0, 1}

\* the table holds at most NoteRows rows here
NoteRows == 2

\* a caller sends GetPaginated(tok, p) and notes the request, the answer and
\* the rows of the store at that time
NoteRequest ==
    /\ last.op = "none"
    /\ memo.phase = "none"
    /\ \E tok \in NotedTokens, p \in NotedPageSizes, f \in BOOLEAN, n \in BOOLEAN :
        LET res == GetPaginated(store, tok, p, f, n)
        IN  /\ last' = [NoCall EXCEPT !.op = "GetPaginated", !.token = tok,
                                      !.pageSize = p, !.res = res]
            /\ memo' = [NoMemo EXCEPT !.phase = "noted", !.token = tok,
                                      !.pageSize = p, !.db = store, !.res = res]
            /\ UNCHANGED <<store, clock, trav, codec, boot>>

\* another caller's request
BetweenRequest ==
    /\ last.op = "none"
    /\ memo.phase = "noted"
    /\ \E tok \in NotedTokens, f \in BOOLEAN, n \in BOOLEAN :
        /\ last' = [NoCall EXCEPT !.op = "GetPaginated", !.token = tok,
                                  !.pageSize = MaxPageSize,
                                  !.res = GetPaginated(store, tok, MaxPageSize, f, n)]
        /\ memo' = [memo EXCEPT !.between = TRUE]
        /\ UNCHANGED <<store, clock, trav, codec, boot>>

\* the caller sends the noted request again
Resubmit ==
    /\ last.op = "none"
    /\ memo.phase = "noted"
    /\ \E f \in BOOLEAN, n \in BOOLEAN :
        LET res == GetPaginated(store, memo.token, memo.pageSize, f, n)
        IN  /\ last' = [NoCall EXCEPT !.op = "GetPaginated",
                                      !.token = memo.token,
                                      !.pageSize = memo.pageSize, !.res = res]
            /\ memo' = [memo EXCEPT !.phase = "again", !.dbAgain = store,
                                    !.again = res]
            /\ UNCHANGED <<store, clock, trav, codec, boot>>

\* time passes, until the request has been sent again
NoteTick == memo.phase # "again" /\ Tick

\* rows are inserted until a request is noted; from then on the store is
\* left as it is, and an Insert is one of a key that is there already
NoteInsert ==
    /\ memo.phase # "again"
    /\ \E k \in ResourceKeys, f \in BOOLEAN :
        /\ \/ memo.phase = "none" /\ Cardinality(store) < NoteRows
           \/ \E r \in store : /\ r.resource_type = k.resource_type
                                /\ r.resource_id = k.resource_id
        /\ Insert(k.resource_id, k.resource_type, f)

NextNote ==
    \/ Deliver
    \/ NoteTick
    \/ NoteInsert
    \/ NoteRequest
    \/ BetweenRequest
    \/ Resubmit

SpecNote == Init /\ [][NextNote]_vars

\* single requests with any token and page size, among inserts
NextCall ==
    \/ Deliver
    \/ Tick
    \/ InsertAny
    \/ GetPaginatedCall
    \/ GetRecordsPaginated
    \/ CreateRecord
    \/ CreateRecordFromQuery

SpecCall == Init /\ [][NextCall]_vars

(***************************************************************************)
(* main.go: the startup sequence, and the program started again on the     *)
(* table an earlier run has left.                                          *)
(***************************************************************************)
\* the records loadSampleData reads from the sample file: SeedKey(1) to
\* SeedKey(SampleRows)
SampleRows == 2

\* a slip: CREATE TABLE IF NOT EXISTS, without the DROP
TableKept(rows, fails) == rows

\* the table after CreateTable: DROP TABLE IF EXISTS, then CREATE TABLE.
\* fails is "drop" when the DROP statement fails (the table stays as it
\* is), "create" when the CREATE statement fails, "none" when both succeed
TableAfterCreate(rows, fails) == IF fails = "drop" THEN rows ELSE {}

\* main: recordRepo.CreateTable(), log.Fatal on an error
StartupCreateTable ==
    /\ boot.pc = "start"
    /\ \E fails \in {"none", "drop", "create"} :
        /\ store' = TableAfterCreate(store, fails)
        /\ boot' = [boot EXCEPT !.pc = IF fails = "none" THEN "populate"
                                       ELSE "fatal"]
    /\ UNCHANGED <<clock, trav, last, codec, memo>>

\* main: populateSampleData(recordRepo), log.Fatal on an error.  GetAll,
\* the branch on len(existingRecords) > 0, loadSampleData, then one Insert
\* for each record, a failed Insert being logged and passed over: inserted
\* are the records whose Insert succeeds
populateSampleData ==
    /\ boot.pc = "populate"
    /\ \E getAllFails \in BOOLEAN, loadFails \in BOOLEAN,
          inserted \in SUBSET (1..SampleRows) :
        LET existingRecords == store
            now == clock
            rows == {[resource_id |-> SeedKey(i).resource_id,
                      resource_type |-> SeedKey(i).resource_type,
                      created_at |-> now, updated_at |-> now] :
                        i \in {j \in inserted :
                                 InsertOK(SeedKey(j).resource_id,
                                          SeedKey(j).resource_type, FALSE)}}
        IN  IF getAllFails
            THEN /\ boot' = [boot EXCEPT !.pc = "fatal"]
                 /\ store' = store
            ELSE IF Cardinality(existingRecords) > 0
            THEN /\ boot' = [boot EXCEPT
                               !.pc = "serving",
                               !.found = Cardinality(existingRecords),
                               !.skipped = TRUE]
                 /\ store' = store
            ELSE IF loadFails
            THEN /\ boot' = [boot EXCEPT !.pc = "fatal"]
                 /\ store' = store
            ELSE /\ boot' = [boot EXCEPT !.pc = "serving"]
                 /\ store' = store \cup rows
    /\ UNCHANGED <<clock, trav, last, codec, memo>>

\* a record created while the server runs
ServeInsert ==
    /\ boot.pc = "serving"
    /\ InsertAny

\* the program has ended (log.Fatal, or the server was stopped) and is
\* started again; the table is what the run before left
Restart ==
    /\ boot.pc \in {"serving", "fatal"}
    /\ last.op = "none"
    /\ boot' = [pc |-> "start", before |-> store, found |-> 0,
                skipped |-> FALSE]
    /\ UNCHANGED <<store, clock, trav, last, codec, memo>>

InitBoot ==
    /\ store = {}
    /\ clock = 0
    /\ trav = Idle
    /\ last = NoCall
    /\ codec = NoCodec
    /\ memo = NoMemo
    /\ boot = [NoBoot EXCEPT !.pc = "start"]

NextBoot ==
    \/ Deliver
    \/ Tick
    \/ StartupCreateTable
    \/ populateSampleData
    \/ ServeInsert
    \/ Restart

SpecBoot == InitBoot /\ [][NextBoot]_vars

(***************************************************************************)
(* The codec on its own: encodeContinuationToken on any position,          *)
(* decodeContinuationToken on any string.                                  *)
(***************************************************************************)
\* the positions reach CodecSecondsBack seconds before the epoch and
\* CodecSecondsAhead seconds after it
CodecSecondsBack == 2
CodecSecondsAhead == 11

\* "", "a", "ab", "|", "a|b"
CodecStrings == {<<>>, <<97>>, <<97, 98>>, <<Pipe>>, <<97, Pipe, 98>>}

CodecTimes ==
    {t - CodecSecondsBack * SubPerSec :
        t \in 0..((CodecSecondsBack + CodecSecondsAhead) * SubPerSec)}

Positions ==
    [resource_type : CodecStrings, resource_id : CodecStrings,
     created_at : CodecTimes]

\* the bytes 'a', '|', '1', '-', '+'
RawBytes == {97, Pipe, 49, Minus, Plus}

RECURSIVE RawStrings(_)
RawStrings(n) ==
    IF n = 0 THEN {<<>>}
    ELSE LET shorter == RawStrings(n - 1)
         IN  shorter \cup {s \o <<b>> : s \in shorter, b \in RawBytes}

\* a token and what a client can make of it: the last character lost, the
\* first one replaced by '!' or by '+', a line feed put in front, a padding
\* character added
Mangled(t) ==
    {t, SubSeq(t, 1, Len(t) - 1), <<33>> \o Tail(t), <<Plus>> \o Tail(t),
     <<LF>> \o t, t \o <<PadChar>>}

\* "a|a|" followed by a number one larger than the largest int64
OverflowString == <<97, Pipe, 97, Pipe>> \o MinInt64Digits

TokenInputs ==
    UNION {Mangled(Base64Encode(x)) : x \in RawStrings(MaxRaw) \ {<<>>}}
        \cup {<<>>, Base64Encode(OverflowString)}

InitCodec ==
    /\ store = {}
    /\ clock = 0
    /\ trav = Idle
    /\ last = NoCall
    /\ memo = NoMemo
    /\ boot = NoBoot
    /\ \/ \E p \in Positions :
            codec = [NoCodec EXCEPT !.phase = "position", !.origin = "position",
                                    !.pos = p]
       \/ \E t \in TokenInputs :
            codec = [NoCodec EXCEPT !.phase = "token", !.origin = "token",
                                    !.tok = t]

Encode ==
    /\ codec.phase = "position"
    /\ codec' = [codec EXCEPT
                    !.phase = "token",
                    !.tok = encodeContinuationToken(codec.pos.resource_type,
                                                    codec.pos.resource_id,
                                                    codec.pos.created_at)]
    /\ UNCHANGED <<store, clock, trav, last, memo, boot>>

Decode ==
    /\ codec.phase = "token"
    /\ codec' = [codec EXCEPT !.phase = "decoded",
                              !.out = decodeContinuationToken(codec.tok)]
    /\ UNCHANGED <<store, clock, trav, last, memo, boot>>

NextCodec == Encode \/ Decode

SpecCodec == InitCodec /\ [][NextCodec]_vars

(***************************************************************************)
(* Properties of the codec, under SpecCodec.                               *)
(***************************************************************************)
\* C6: for every cursor position, decoding the encoded position succeeds and
\* gives back the same resource_type and resource_id, and a timestamp equal
\* to created_at at whole-second precision.
RoundTrip ==
    (codec.origin = "position" /\ codec.phase = "decoded") =>
        /\ codec.out.err = "none"
        /\ codec.out.pos.resource_type = codec.pos.resource_type
        /\ codec.out.pos.resource_id = codec.pos.resource_id
        /\ Unix(codec.out.pos.created_at) = Unix(codec.pos.created_at)

\* the positions of '|' in a string
PipesOf(b) == {i \in 1..Len(b) : b[i] = Pipe}

\* the text of a base-10 integer that fits 64 bits: an optional sign, then
\* digits
IsInt64Text(s) ==
    \E sign \in {<<>>, <<Plus>>, <<Minus>>} :
        /\ Len(s) > Len(sign)
        /\ SubSeq(s, 1, Len(sign)) = sign
        /\ \A i \in (Len(sign) + 1)..Len(s) : s[i] \in Zero..Nine
        /\ InInt64Range(SubSeq(s, Len(sign) + 1, Len(s)), sign = <<Minus>>)

\* the outcome the order of the checks prescribes for a token
OutcomeOf(t) ==
    LET raw == Base64Decode(t)
        pipes == PipesOf(raw.bytes)
        p2 == CHOOSE i \in pipes : \A j \in pipes : j <= i
    IN  IF ~raw.ok THEN "encoding"
        ELSE IF Cardinality(pipes) # 2 THEN "format"
        ELSE IF ~IsInt64Text(SubSeq(raw.bytes, p2 + 1, Len(raw.bytes)))
        THEN "timestamp"
        ELSE "none"

\* C8: decodeContinuationToken is total and every string has exactly one
\* outcome, decided in this order: not URL-safe base64, the encoding error;
\* not exactly three '|'-separated fields, the format error; a third field
\* that is no base-10 64-bit integer, the timestamp error; otherwise a
\* position, made of the three fields.
DecodeClassified ==
    codec.phase = "decoded" =>
        LET b == Base64Decode(codec.tok).bytes
            pipes == PipesOf(b)
            p1 == CHOOSE i \in pipes : \A j \in pipes : i <= j
            p2 == CHOOSE i \in pipes : \A j \in pipes : j <= i
        IN  /\ codec.out.err \in {"encoding", "format", "timestamp", "none"}
            /\ codec.out.err = OutcomeOf(codec.tok)
            /\ codec.out.err # "none" => codec.out.pos = NoPosition
            /\ codec.out.err = "none" =>
                  /\ codec.out.pos.resource_type = SubSeq(b, 1, p1 - 1)
                  /\ codec.out.pos.resource_id = SubSeq(b, p1 + 1, p2 - 1)
                  /\ FormatInt(Unix(codec.out.pos.created_at))
                       = StripZeros(SelectSeq(SubSeq(b, p2 + 1, Len(b)),
                                              LAMBDA c : c # Plus))

\* a string that is base64 and has three fields, refused for its timestamp
DecodeClassifiedWitness ==
    /\ codec.phase = "decoded"
    /\ codec.origin = "token"
    /\ codec.out.err = "timestamp"
    /\ Cardinality(PipesOf(Base64Decode(codec.tok).bytes)) = 2

(***************************************************************************)
(* Properties of a single page request, under SpecCall.                    *)
(***************************************************************************)
IsPageCall == last.op \in {"GetPaginated", "GetRecordsPaginated"}

InvalidTokenErrors == {"encoding", "format", "timestamp"}

\* the rows of db strictly after the position of the token in the descending
\* order of (created_at, resource_type, resource_id); all of them for the
\* empty token
Beyond(db, token) ==
    IF token = <<>> THEN db
    ELSE {r \in db : OrderedBefore(AsRow(CursorOf(token)), r)}

\* what a token says of a row: "type|id|seconds"
PositionText(r) ==
    r.resource_type \o <<Pipe>> \o r.resource_id \o <<Pipe>>
        \o FormatInt(Unix(r.created_at))

\* C2: a successful GetPaginated returns a next token if and only if the rows
\* matching the request's filter number more than the effective page size;
\* otherwise the token is absent.
TokenIffMore ==
    (IsPageCall /\ last.res.err = "none") =>
        /\ last.res.hasNext <=>
              Cardinality(Beyond(store, last.token)) > EffectivePageSize(last.pageSize)
        /\ last.res.hasNext <=> last.res.next # <<>>

\* a page asked for with a token, with more rows behind it
TokenIffMoreWitness ==
    /\ IsPageCall
    /\ last.res.err = "none"
    /\ last.token # <<>>
    /\ last.res.hasNext
    /\ Cardinality(Beyond(store, last.token)) = EffectivePageSize(last.pageSize) + 1

\* C3: when more than pageSize rows match, so that the store returns
\* pageSize+1 rows, the page is the first pageSize of them and the next token
\* spells the (resource_type, resource_id, created_at) of the last row kept,
\* not of the look-ahead row.
LookAheadDiscarded ==
    (/\ IsPageCall
     /\ last.res.err = "none"
     /\ Cardinality(Beyond(store, last.token)) > EffectivePageSize(last.pageSize)) =>
        LET ps == EffectivePageSize(last.pageSize)
            rows == OrderBy(Beyond(store, last.token))
        IN  /\ last.res.records = SubSeq(rows, 1, ps)
            /\ last.res.hasNext
            /\ Base64Decode(last.res.next).ok
            /\ Base64Decode(last.res.next).bytes = PositionText(rows[ps])
            /\ Base64Decode(last.res.next).bytes # PositionText(rows[ps + 1])

\* a first page of two rows cut out of three
LookAheadDiscardedWitness ==
    /\ IsPageCall
    /\ last.res.err = "none"
    /\ last.token = <<>>
    /\ Len(last.res.records) = 2
    /\ Cardinality(store) = 3

\* the tokens of the requests that do not decode
InvalidCallTokens ==
    CorruptTokens \cup {Base64Encode(x) : x \in MalformedStrings \ {<<>>}}

\* C9: given a non-empty token that fails to decode, GetPaginated returns an
\* error and no page, and issues no query to the store.
InvalidTokenNoQuery ==
    (IsPageCall /\ last.token \in InvalidCallTokens) =>
        /\ last.res.err \in InvalidTokenErrors
        /\ last.res.nil
        /\ last.res.records = <<>>
        /\ ~last.res.queried

\* a request with a token of two fields, on a store that holds rows
InvalidTokenNoQueryWitness ==
    /\ IsPageCall
    /\ last.token \in InvalidCallTokens
    /\ last.res.err = "format"
    /\ store # {}

\* C10: the HTTP layer answers an invalid continuation token with a client
\* error status (4xx) and a failed store query with a server error status
\* (5xx).
StatusClasses ==
    last.op = "GetRecordsPaginated" =>
        /\ last.res.err \in InvalidTokenErrors => last.status \in 400..499
        /\ last.res.err = "query" => last.status \in 500..599

(***************************************************************************)
(* Properties of a traversal, under Spec.                                  *)
(***************************************************************************)
Range(f) == {f[i] : i \in DOMAIN f}

Occurrences(f, x) == Cardinality({i \in DOMAIN f : f[i] = x})

IndexOf(f, x) == CHOOSE i \in DOMAIN f : f[i] = x

\* a traversal ends early only when the store fails a query
OnlyStoreFailures ==
    (trav.phase = "failed" /\ last.op = "GetPaginated") => last.res.err = "query"

\* C1: over a fixed set of rows, with a fixed positive page size, following
\* the next tokens from the empty token until none is returned yields every
\* row of the store exactly once, in descending (created_at, resource_type,
\* resource_id) order.
ExhaustiveCoverage ==
    trav.added = {} =>
        /\ trav.phase = "done" => trav.seen = OrderBy(trav.start)
        /\ OnlyStoreFailures

HasTies(rows) ==
    \E r1, r2 \in rows : r1 # r2 /\ r1.created_at = r2.created_at

\* C4: rows that share a created_at are each returned exactly once by a full
\* traversal, ordered among themselves by resource_type, then resource_id,
\* descending, wherever the page boundaries fall.
TiesPaginated ==
    (trav.added = {} /\ HasTies(trav.start)) =>
        /\ trav.phase = "done" =>
              /\ \A r \in trav.start : Occurrences(trav.seen, r) = 1
              /\ \A r1, r2 \in trav.start :
                    (/\ r1.created_at = r2.created_at
                     /\ \/ StrLess(r2.resource_type, r1.resource_type)
                        \/ /\ r1.resource_type = r2.resource_type
                           /\ StrLess(r2.resource_id, r1.resource_id))
                    => IndexOf(trav.seen, r1) < IndexOf(trav.seen, r2)
        /\ OnlyStoreFailures

\* C5: with inserts between the page requests, every row that was there when
\* the traversal started is returned exactly once and no row twice; a row
\* inserted before the cursor never shows on the pages that follow, a row
\* inserted after the cursor shows on one of them.
ConcurrentInserts ==
    trav.added # {} =>
        /\ trav.phase = "done" =>
              /\ \A r \in trav.start : Occurrences(trav.seen, r) = 1
              /\ \A r \in Range(trav.seen) : Occurrences(trav.seen, r) = 1
              /\ \A a \in trav.added :
                    LET later == SubSeq(trav.seen, a.at + 1, Len(trav.seen))
                    IN  IF a.before THEN a.row \notin Range(later)
                        ELSE a.row \in Range(later)
        /\ OnlyStoreFailures

\* C7: every next token GetPaginated emits is accepted when it is passed
\* back: the follow-up request never fails for its token, whatever
\* resource_type and resource_id the rows carry.
EmittedTokenAccepted ==
    (last.op = "GetPaginated" /\ last.token # <<>>) =>
        last.res.err \notin InvalidTokenErrors

(***************************************************************************)
(* Properties of a request against a loaded store, under SpecSeed.         *)
(***************************************************************************)
\* C11: for every token and every store content, GetPaginated with pageSize
\* 0 or a negative pageSize returns exactly what the same call with pageSize
\* 5 returns: the same records and the same next token.
DefaultPageSizeSubstituted ==
    (last.op = "GetPaginated" /\ last.pageSize <= 0) =>
        LET five == GetPaginated(store, last.token, 5,
                                 last.res.err = "query", FALSE)
        IN  /\ last.res.err = five.err
            /\ last.res.records = five.records
            /\ last.res.hasNext = five.hasNext
            /\ last.res.next = five.next
            /\ last.res.err = "none" =>
                  Len(last.res.records) = Min(5, Cardinality(Beyond(store, last.token)))

\* a negative page size and a token with six rows behind it: five come back,
\* and a next token
DefaultPageSizeSubstitutedWitness ==
    /\ last.op = "GetPaginated"
    /\ last.pageSize < 0
    /\ last.token # <<>>
    /\ last.res.err = "none"
    /\ Cardinality(Beyond(store, last.token)) = 6
    /\ Len(last.res.records) = 5
    /\ last.res.hasNext

\* the store itself failed the query: an error for a LIMIT that was not
\* negative
Outage(res) == res.err = "query" /\ res.limit >= 0

StoreOutage == Outage(last.res)

\* C12: GetPaginated with the empty token against a store of zero rows
\* returns, without error, an empty record sequence and no next token, for
\* every page size.
EmptyStorePage ==
    (/\ last.op = "GetPaginated"
     /\ last.token = <<>>
     /\ store = {}
     /\ ~StoreOutage) =>
        /\ last.res.err = "none"
        /\ ~last.res.nil
        /\ last.res.records = <<>>
        /\ ~last.res.hasNext
        /\ last.res.next = <<>>

\* C14: GetPaginated accepts every positive pageSize, up to the largest
\* value of the int type, without capping it: with n rows matching the
\* request's filter it returns min(pageSize, n) records, and the row limit it
\* asks of the store is exactly pageSize + 1, a positive number.
AnyPageSizeAccepted ==
    (/\ last.op = "GetPaginated"
     /\ last.pageSize > 0
     /\ last.res.err \notin InvalidTokenErrors
     /\ ~StoreOutage) =>
        /\ last.res.err = "none"
        /\ Len(last.res.records)
             = Min(last.pageSize, Cardinality(Beyond(store, last.token)))
        /\ last.res.limit > 0
        /\ last.res.limit - 1 = last.pageSize

(***************************************************************************)
(* Properties of a token handed back later, under SpecDrop.                *)
(***************************************************************************)
\* the row a noted page ends with: the row its next token was made from
NotedRow == memo.res.records[Len(memo.res.records)]

\* the position the next token of the noted page stands for: the tuple of
\* that row, at the precision of the token
NotedPosition ==
    [NotedRow EXCEPT !.created_at = TimeOfUnix(Unix(NotedRow.created_at))]

\* C15: a cursor is only a position marker: when the row whose tuple a token
\* encodes has been deleted before the token is handed back, GetPaginated
\* still succeeds and returns the rows now in the store that are strictly
\* below that position, in descending order, skipping none of them and
\* returning none at or above the position.
DeletedRowCursor ==
    (memo.phase = "again" /\ NotedRow \notin memo.dbAgain /\ ~Outage(memo.again)) =>
        /\ memo.again.err = "none"
        /\ \A i \in 1..Len(memo.again.records) :
              /\ memo.again.records[i] \in memo.dbAgain
              /\ OrderedBefore(NotedPosition, memo.again.records[i])
        /\ memo.again.records =
              Limit(OrderBy({r \in memo.dbAgain : OrderedBefore(NotedPosition, r)}),
                    memo.pageSize)

IsNumeral(s) ==
    \E sign \in {<<>>, <<Plus>>, <<Minus>>} :
        /\ Len(s) > Len(sign)
        /\ SubSeq(s, 1, Len(sign)) = sign
        /\ \A i \in (Len(sign) + 1)..Len(s) : s[i] \in Zero..Nine

\* the digits of a numeral, leading zeros dropped
Magnitude(s) ==
    StripZeros(IF s[1] \in {Plus, Minus} THEN Tail(s) ELSE s)

\* a numeral that stands for zero or for a negative number
NotPositive(s) == s[1] = Minus \/ Magnitude(s) = <<Zero>>

\* a positive numeral that stands for more than 100
Exceeds100(s) ==
    /\ ~NotPositive(s)
    /\ \/ Len(Magnitude(s)) > 3
       \/ Len(Magnitude(s)) = 3 /\ StrLess(<<49, 48, 48>>, Magnitude(s))

CreateValidated ==
    last.op \in {"CreateRecord", "CreateRecordFromQuery"} =>
        LET q == last.query
            lacking == q.resource_id = <<>> \/ q.resource_type = <<>>
            stored == \E r \in store : /\ r.resource_id = q.resource_id
                                       /\ r.resource_type = q.resource_type
        IN  /\ lacking => /\ last.status = 400
                          /\ ~last.res.queried
                          /\ ~stored
            /\ (last.op = "CreateRecordFromQuery" /\ lacking) =>
                  last.res.err = IF q.resource_id = <<>> THEN "resource_id"
                                 ELSE "resource_type"
            /\ last.res.queried =>
                  /\ ~lacking
                  /\ last.res.err \in {"none", "exec"}
                  /\ last.res.err = "exec" => last.status = 500
                  /\ last.res.err = "none" => last.status = 201 /\ stored
            /\ last.status \in {201, 400, 500}

\* a request that lacks both parameters: the missing resource_id is reported
CreateValidatedWitness ==
    /\ last.op = "CreateRecordFromQuery"
    /\ last.query.resource_id = <<>>
    /\ last.query.resource_type = <<>>
    /\ last.res.err = "resource_id"
    /\ last.status = 400
    /\ store # {}

(***************************************************************************)
(* The seek filter, under SpecCall.                                        *)
(***************************************************************************)
\* (created_at, resource_type, resource_id) of a is strictly less than that
\* of b, field by field from the left
TupleLess(a, b) ==
    \/ a.created_at < b.created_at
    \/ /\ a.created_at = b.created_at
       /\ \/ StrLess(a.resource_type, b.resource_type)
          \/ /\ a.resource_type = b.resource_type
             /\ StrLess(a.resource_id, b.resource_id)

\* every row the table can hold
AnyRows ==
    {[resource_id |-> k.resource_id, resource_type |-> k.resource_type,
      created_at |-> t, updated_at |-> t] : k \in ResourceKeys, t \in 0..MaxClock}

\* how many of the three ranges of the filter hold for row r
RangesHolding(r, cur) ==
    Cardinality(
        {d \in {"created_at", "resource_type", "resource_id"} :
            \/ d = "created_at" /\ SeekCreatedAt(r, cur.created_at)
            \/ d = "resource_type"
                  /\ SeekResourceType(r, cur.resource_type, cur.created_at)
            \/ d = "resource_id"
                  /\ SeekResourceID(r, cur.resource_type, cur.resource_id,
                                    cur.created_at)})

\* C18: for a non-empty valid token, the records GetPaginated returns are
\* exactly the first min(pageSize, k) of the k stored rows whose
\* (created_at, resource_type, resource_id) is strictly less than the decoded
\* cursor, in strictly descending order; the three-range filter selects a
\* row if and only if that strict comparison holds, and at most one range
\* holds for any row.
SeekExact ==
    (/\ IsPageCall
     /\ last.token # <<>>
     /\ decodeContinuationToken(last.token).err = "none"
     /\ last.res.err = "none") =>
        LET cur == CursorOf(last.token)
            below == {r \in store : TupleLess(r, cur)}
            n == Min(EffectivePageSize(last.pageSize), Cardinality(below))
            recs == last.res.records
        IN  /\ Len(recs) = n
            /\ \A i \in 1..Len(recs) :
                  /\ recs[i] \in below
                  /\ Cardinality({o \in below : TupleLess(recs[i], o)}) = i - 1
            /\ \A i \in 1..(Len(recs) - 1) : TupleLess(recs[i + 1], recs[i])
            /\ \A r \in AnyRows :
                  /\ SeekPredicate(r, cur.resource_type, cur.resource_id,
                                   cur.created_at) <=> TupleLess(r, cur)
                  /\ RangesHolding(r, cur) <= 1

\* a page cut short by the page size, with a stored row at or above the
\* cursor left out and a row picked by the third range alone
SeekExactWitness ==
    /\ last.op = "GetPaginated"
    /\ last.token # <<>>
    /\ decodeContinuationToken(last.token).err = "none"
    /\ last.res.err = "none"
    /\ Len(last.res.records) = 1
    /\ last.res.hasNext
    /\ \E r \in store : ~TupleLess(r, CursorOf(last.token))
    /\ \E r \in store :
          SeekResourceID(r, CursorOf(last.token).resource_type,
                         CursorOf(last.token).resource_id,
                         CursorOf(last.token).created_at)

(***************************************************************************)
(* The timestamp a token carries, under SpecCodec.                         *)
(***************************************************************************)
\* C19: the token carries the timestamp as whole seconds since the epoch:
\* for every created_at, the timestamp returned by decoding the encoded
\* token equals created_at rounded down to the whole second with a zero
\* sub-second component, so it is less than or equal to created_at and
\* differs from it by less than one second.
FlooredToSecond ==
    (codec.origin = "position" /\ codec.phase = "decoded") =>
        LET createdAt == codec.pos.created_at
            back == codec.out.pos.created_at
        IN  /\ codec.out.err = "none"
            /\ back = TimeOfUnix(Unix(createdAt))
            /\ back % SubPerSec = 0
            /\ back <= createdAt
            /\ createdAt - back < SubPerSec

(***************************************************************************)
(* Insert and the primary key, under SpecCall.                             *)
(***************************************************************************)
\* rows of the same (resource_type, resource_id)
SameKey(r, resourceType, resourceID) ==
    r.resource_type = resourceType /\ r.resource_id = resourceID

\* C20: Insert of a record whose (resource_type, resource_id) already exists
\* in the store returns an error and leaves the store unchanged, so the
\* store never holds two rows with the same (resource_type, resource_id); a
\* successful Insert adds exactly one row whose created_at and updated_at
\* are equal.
InsertKeepsKeysUnique ==
    /\ \A r1 \in store, r2 \in store :
          SameKey(r1, r2.resource_type, r2.resource_id) => r1 = r2
    /\ last.op = "Insert" =>
          LET resourceType == last.query.resource_type
              resourceID == last.query.resource_id
              existed == \E r \in last.before :
                            SameKey(r, resourceType, resourceID)
          IN  /\ existed => last.res.err # "none"
              /\ last.res.err # "none" => store = last.before
              /\ last.res.err = "none" =>
                    \E row \in store :
                        /\ row \notin last.before
                        /\ store = last.before \cup {row}
                        /\ SameKey(row, resourceType, resourceID)
                        /\ row.created_at = row.updated_at

\* an Insert of a key that is in the table, at a later time than the row's
InsertKeepsKeysUniqueWitness ==
    /\ last.op = "Insert"
    /\ last.res.err = "exec"
    /\ store = last.before
    /\ \E r \in last.before :
          /\ SameKey(r, last.query.resource_type, last.query.resource_id)
          /\ r.created_at < clock

(***************************************************************************)
(* More properties of a traversal, under Spec.                             *)
(***************************************************************************)
\* the last row of the page that carried the token of the latest request:
\* the row seen just before the records of the latest answer
EmittingRow ==
    trav.seen[Len(trav.seen) - Len(last.res.records)]

\* C21: in a traversal over a fixed store, no row is ever returned on more
\* than one page, even when stored created_at values have a sub-second part
\* that the token drops: every row returned for a token is strictly below,
\* in the descending order, the last row of the page that emitted the token.
NoRowTwice ==
    trav.added = {} =>
        /\ \A r \in Range(trav.seen) : Occurrences(trav.seen, r) = 1
        /\ (/\ last.op = "GetPaginated"
            /\ last.token # <<>>
            /\ last.res.err = "none") =>
              /\ Len(trav.seen) > Len(last.res.records)
              /\ \A i \in 1..Len(last.res.records) :
                    TupleLess(last.res.records[i], EmittingRow)

\* a page of rows for a token whose emitting row has a sub-second part
NoRowTwiceWitness ==
    /\ trav.added = {}
    /\ last.op = "GetPaginated"
    /\ last.token # <<>>
    /\ last.res.err = "none"
    /\ Len(last.res.records) > 0
    /\ Len(trav.seen) > Len(last.res.records)
    /\ EmittingRow.created_at % SubPerSec # 0

(***************************************************************************)
(* A traversal whose requests differ in page size, under SpecResized.      *)
(***************************************************************************)
\* C22: a token does not depend on the page size that produced it: a
\* traversal over a fixed store in which each request uses a different
\* positive page size still returns every row exactly once in descending
\* order.
AnyPageSizeSequence ==
    (trav.added = {} /\ Cardinality(trav.sizes) > 1) =>
        /\ trav.phase = "done" => trav.seen = OrderBy(trav.start)
        /\ OnlyStoreFailures

(***************************************************************************)
(* The size of a page, under SpecSeed.                                     *)
(***************************************************************************)
\* C23: every successful GetPaginated result has at most (effective
\* pageSize) records, and whenever a next token is present the page holds
\* exactly pageSize records, so a page that carries a token is never empty.
PageSizeBound ==
    (IsPageCall /\ last.res.err = "none") =>
        LET ps == EffectivePageSize(last.pageSize)
            tokenPresent == last.res.hasNext \/ last.res.next # <<>>
        IN  /\ Len(last.res.records) <= ps
            /\ tokenPresent => /\ Len(last.res.records) = ps
                               /\ last.res.records # <<>>

\* a page of the default size that carries a token, asked for with a token
\* and a page size of zero or less
PageSizeBoundWitness ==
    /\ IsPageCall
    /\ last.res.err = "none"
    /\ last.token # <<>>
    /\ last.pageSize <= 0
    /\ last.res.next # <<>>
    /\ Len(last.res.records) = DefaultPageSize

(***************************************************************************)
(* The length of a traversal, under Spec.                                  *)
(***************************************************************************)
\* max(1, ceil(n / p))
RequestsNeeded(n, p) == IF n = 0 THEN 1 ELSE (n + p - 1) \div p

\* C24: a traversal of a fixed store of n rows with fixed positive page size
\* p always terminates, after exactly max(1, ceil(n/p)) requests; in
\* particular when n is a positive multiple of p the last page is full and
\* carries no token, so no empty trailing page is ever requested.
TraversalLength ==
    (trav.added = {} /\ trav.phase # "idle") =>
        LET n == Cardinality(trav.start)
            p == trav.pageSize
        IN  /\ trav.phase = "running" => trav.requests < RequestsNeeded(n, p)
            /\ trav.phase = "done" => trav.requests = RequestsNeeded(n, p)
            /\ (/\ trav.phase = "done"
                /\ last.op = "GetPaginated"
                /\ n > 0
                /\ n % p = 0) =>
                  /\ Len(last.res.records) = p
                  /\ ~last.res.hasNext
            /\ OnlyStoreFailures

====
